---- MODULE Spec2Model ----
(***************************************************************************)
(* Model of the recording / processing / playback orchestration of the     *)
(* VoiceAIAgent component (src/voice-agent/src/components/VoiceAIAgent.jsx,*)
(* the conversational variant, lines 253-478).                             *)
(*                                                                         *)
(* One step of the model is one event-loop job: a click handler run to its *)
(* first await, or the continuation of an await (microphone permission, a  *)
(* fetch response, the retry timer, the recorder's stop task).  The        *)
(* continuation of a fetch rejected by AbortController.abort() is a        *)
(* microtask: it is a step of its own, and no other job runs before it.    *)
(***************************************************************************)
EXTENDS Integers, Sequences, FiniteSets, TLC

VARIABLES
  isRecording,        \* useState, line 255
  isPaused,           \* useState, line 256
  isProcessing,       \* useState, line 257
  status,             \* useState, line 258
  transcriptionText,  \* useState, line 259 (0 is the empty string)
  chatHistory,        \* useState, line 260
  mediaRecorderRef,   \* useRef, line 261 (0 is null, else the session's recorder)
  audioChunksRef,     \* useRef, line 262: the chunks, each named by its recorder
  audioSrc,           \* audioRef.current.src, line 263 (0 is '')
  audioPlaying,       \* audioRef.current is playing
  ctrl,               \* processingControllerRef.current, line 264 (0 is null,
                      \* else the session whose processAudio call created it)
  phase,              \* per startRecording call: where its recorder / run stands
  retryCount,         \* per run: the retryCount argument of the current call
  linked,             \* per run: the fetch in flight carries the signal of the
                      \* controller that processingControllerRef holds now
  aborted,            \* per run: the fetch in flight was rejected with AbortError
                      \* and its continuation is the pending microtask
  clip,               \* per run: the chunks the Blob of line 297 was built from
  capHistory,         \* per call: chatHistory of the render whose closure it runs in
  capTranscript,      \* per call: transcriptionText of that render
  appended,           \* history: entries each run appended to chatHistory
  synthIssued,        \* history: /tts requests each run issued
  superseded,         \* history: startRecording ran while this run was in flight
  afterEnd,           \* history: handleEndCall ran and startRecording has not since
  rateLimits,         \* history: 429 responses /tts has given
  invalidatedAt,      \* history, per run: the await it stood at when startRecording
                      \* or handleEndCall last ran over it ("none": never)
  stoppedBy,          \* per recorder whose stop task is queued: the handler that
                      \* called stop() on it ("none": no stop task queued)
  playingDetached,    \* Audio elements audioRef no longer holds that are playing
  env,                \* the environment of this behaviour, one of Profiles
  errorDetail,        \* retry policy: the detail string of a 429 response
  retryAfter          \* retry policy: the delay computed for it (NotComputed: not yet)

vars == <<isRecording, isPaused, isProcessing, status, transcriptionText,
          chatHistory, mediaRecorderRef, audioChunksRef, audioSrc, audioPlaying,
          ctrl, phase, retryCount, linked, aborted, clip, capHistory,
          capTranscript, appended, synthIssued, superseded,
          afterEnd, rateLimits, invalidatedAt, stoppedBy, playingDetached,
          env, errorDetail, retryAfter>>

reactVars == <<isRecording, isPaused, isProcessing, status, transcriptionText,
               chatHistory>>
\* What no step of the component changes: the environment's profile, and the
\* retry policy's input and result.
envVars == <<env, errorDetail, retryAfter>>

\* ------------------------------------------------------ program constants
maxRetries == 3
DefaultRetryDelay == 10000

\* ---------------------------------------------------------------- bounds
\* startRecording calls and 429 responses of /tts in a behaviour
MaxSessions == 2
MaxRateLimits == 2
Sessions == 1..(MaxSessions + 2)

\* The environments explored.  In every one the user starts at most env.sessions
\* recordings and /tts answers 429 at most env.rateLimits times; env.errors: the
\* microphone may be refused, a recording may be empty, a service may answer with
\* an error and play() may be refused; env.controls: the user may press pause and
\* end; env.answered: the runs whose requests the services answer (the requests
\* of the others stay in flight).
Profiles ==
  { [sessions |-> MaxSessions, rateLimits |-> MaxRateLimits,
     errors |-> TRUE, controls |-> TRUE, answered |-> Sessions],
    [sessions |-> MaxSessions + 1, rateLimits |-> 0,
     errors |-> TRUE, controls |-> FALSE, answered |-> Sessions],
    [sessions |-> MaxSessions + 2, rateLimits |-> maxRetries + 1,
     errors |-> FALSE, controls |-> FALSE, answered |-> {1}] }


\* ------------------------------------------------------------ retry policy
\* An error detail is a string, modelled as a sequence of characters; "P" stands
\* for the literal text "Please try again in ", "x" for any other character.
DigitChars == {"0", "1", "2", "3", "4", "5", "6", "7", "8", "9"}
DigitVal(c) ==
  CASE c = "0" -> 0 [] c = "1" -> 1 [] c = "2" -> 2 [] c = "3" -> 3 [] c = "4" -> 4
    [] c = "5" -> 5 [] c = "6" -> 6 [] c = "7" -> 7 [] c = "8" -> 8 [] c = "9" -> 9

\* Length of the details enumerated in full, over the characters of DetailChars.
MaxDetailLen == 5
DetailChars == {"P", "0", "1", "3", "h", "m", "s", ".", "x"}
RECURSIVE SeqsUpTo(_, _)
SeqsUpTo(S, n) ==
  IF n = 0 THEN {<<>>}
  ELSE LET shorter == SeqsUpTo(S, n - 1) IN
       shorter \cup {Append(d, c) : d \in {e \in shorter : Len(e) = n - 1}, c \in S}

\* "Please try again in 1m30.5s", "Please try again in 2h", "no duration here",
\* "Please try again in 1m30s", "try again in 1h2m3.5s" after other text.
ExampleDetails ==
  { <<"P", "1", "m", "3", "0", ".", "5", "s">>,
    <<"P", "2", "h">>,
    <<"x", "x", "x">>,
    <<"P", "1", "m", "3", "0", "s">>,
    <<"x", "P", "1", "h", "2", "m", "3", ".", "5", "s">> }
Details == SeqsUpTo(DetailChars, MaxDetailLen) \cup ExampleDetails

\* null, the value of a match that failed (line 340)
Null == -1
\* retryAfter before line 403 ran
NotComputed == -2

\* The number of digits of s from position p on (\d+ is greedy).
RECURSIVE DigitRun(_, _)
DigitRun(s, p) ==
  IF p <= Len(s) /\ s[p] \in DigitChars THEN 1 + DigitRun(s, p + 1) ELSE 0

\* The decimal value of the n digits of s from position p on (parseInt).
RECURSIVE DecVal(_, _, _)
DecVal(s, p, n) ==
  IF n = 0 THEN 0 ELSE DecVal(s, p, n - 1) * 10 + DigitVal(s[p + n - 1])

RECURSIVE Pow10(_)
Pow10(n) == IF n = 0 THEN 1 ELSE 10 * Pow10(n - 1)

\* The first position of "Please try again in " in s, 0 when there is none: where
\* the regular expression of line 339, all of whose groups are optional, matches.
RECURSIVE FindPrefix(_, _)
FindPrefix(s, p) ==
  IF p > Len(s) THEN 0 ELSE IF s[p] = "P" THEN p ELSE FindPrefix(s, p + 1)

\* (\d+h)? and (\d+m)? at position p: the number of characters the group takes
\* (0: the group does not take part in the match).
UnitGroup(s, p, unit) ==
  LET n == DigitRun(s, p) IN
  IF n > 0 /\ p + n <= Len(s) /\ s[p + n] = unit THEN n + 1 ELSE 0

\* (\d+\.\d+s)? at position p: the digits before and after the point
\* (<<0, 0>>: the group does not take part in the match).
SecondsGroup(s, p) ==
  LET n == DigitRun(s, p)
      k == IF n > 0 /\ p + n <= Len(s) /\ s[p + n] = "." THEN DigitRun(s, p + n + 1)
           ELSE 0
  IN IF k > 0 /\ p + n + 1 + k <= Len(s) /\ s[p + n + 1 + k] = "s"
     THEN <<n, k>> ELSE <<0, 0>>

\* parseFloat of the seconds group, in milliseconds.
SecondsMs(s, p, nk) ==
  DecVal(s, p, nk[1]) * 1000 + (DecVal(s, p + nk[1] + 1, nk[2]) * 1000) \div Pow10(nk[2])

\* Lines 338-346; the result is seconds * 1000, or Null.
parseRetryAfter(errorMessage) ==
  LET at == FindPrefix(errorMessage, 1) IN
  IF at = 0 THEN Null
  ELSE LET p1 == at + 1
           g1 == UnitGroup(errorMessage, p1, "h")
           p2 == p1 + g1
           g2 == UnitGroup(errorMessage, p2, "m")
           p3 == p2 + g2
           g3 == SecondsGroup(errorMessage, p3)
           hours == IF g1 > 0 THEN DecVal(errorMessage, p1, g1 - 1) * 3600 ELSE 0
           minutes == IF g2 > 0 THEN DecVal(errorMessage, p2, g2 - 1) * 60 ELSE 0
           millis == IF g3[1] > 0 THEN SecondsMs(errorMessage, p3, g3) ELSE 0
       IN (hours + minutes) * 1000 + millis

\* parseRetryAfter(errorData.detail) || 10000 (line 403): null and 0 are falsy.
RetryDelay(detail) ==
  LET parsed == parseRetryAfter(detail) IN
  IF parsed = Null \/ parsed = 0 THEN DefaultRetryDelay ELSE parsed

\* ------------------------------------------------------------ status text
St(k) == [k |-> k, t |-> 0]
Prompt == St("Click the square button to speak your query")
Starting == St("Starting recording...")
RecordingNow == St("Recording your query... Speak now!")
ProcessingQuery == St("Processing your query...")
MicError == St("Error accessing microphone. Please allow microphone access.")
ErrorAudio == St("Error processing audio")
ErrorQuery == St("Error processing query: ...")
AIResponding == St("AI is responding...")
AIReceived == St("AI response received")
ResponsePaused == St("Response paused")
ErrorResuming == St("Error resuming audio")
YouSaid(t) == [k |-> "You said: ", t |-> t]

ErrorStatuses == {ErrorAudio, ErrorQuery, MicError}

\* --------------------------------------------------------------- phases
InFlight == {"transcribe", "generate", "tts"}
Running == InFlight \cup {"delay"}
Terminal == {"micFailed", "doneEmpty", "doneAborted", "doneAbortedTts",
             "doneError", "doneAudio", "doneText"}

\* The transcript the service returns for the clip of run i.
Transcript(i) == i
\* The entry of line 387.
Entry(i) == [user |-> Transcript(i), ai |-> i]

\* No rejected fetch is waiting for its continuation: the microtask queue is empty.
NoMicrotask == \A i \in Sessions : ~aborted[i]

Unused == {i \in Sessions : phase[i] = "unused"}
NextSession == CHOOSE i \in Unused : \A j \in Unused : i <= j

InitComponent ==
  /\ isRecording = FALSE
  /\ isPaused = FALSE
  /\ isProcessing = FALSE
  /\ status = Prompt
  /\ transcriptionText = 0
  /\ chatHistory = <<>>
  /\ mediaRecorderRef = 0
  /\ audioChunksRef = <<>>
  /\ audioSrc = 0
  /\ audioPlaying = FALSE
  /\ ctrl = 0
  /\ phase = [i \in Sessions |-> "unused"]
  /\ retryCount = [i \in Sessions |-> 0]
  /\ linked = [i \in Sessions |-> FALSE]
  /\ aborted = [i \in Sessions |-> FALSE]
  /\ clip = [i \in Sessions |-> <<>>]
  /\ capHistory = [i \in Sessions |-> <<>>]
  /\ capTranscript = [i \in Sessions |-> 0]
  /\ appended = [i \in Sessions |-> 0]
  /\ synthIssued = [i \in Sessions |-> 0]
  /\ superseded = [i \in Sessions |-> FALSE]
  /\ afterEnd = FALSE
  /\ rateLimits = 0
  /\ invalidatedAt = [i \in Sessions |-> "none"]
  /\ stoppedBy = [i \in Sessions |-> "none"]
  /\ playingDetached = 0

Init ==
  /\ InitComponent
  /\ env \in Profiles
  /\ errorDetail = <<>>
  /\ retryAfter = NotComputed

\* ------------------------------------------------------------- helpers
\* AbortController.abort() on the controller the ref holds (lines 273-276 and
\* 468-471): every fetch in flight that carries its signal rejects with AbortError.
AbortScope(ab) ==
  [i \in Sessions |-> ab[i] \/ (ctrl # 0 /\ linked[i] /\ phase[i] \in InFlight)]

\* A controller leaves the ref (set to null, or replaced): no fetch in flight
\* carries the signal of the ref's controller any more.
Unlinked == [i \in Sessions |-> FALSE]

\* mediaRecorderRef.current.stop() when it is recording (lines 277-279, 330-331,
\* 461-463): the recorder turns inactive and its stop task is queued.
StopIfRecording(ph) ==
  IF mediaRecorderRef # 0 /\ ph[mediaRecorderRef] = "recording"
  THEN [ph EXCEPT ![mediaRecorderRef] = "stopping"]
  ELSE ph

\* The handler `by` called stop() on the recorder of the ref, if it is recording.
StoppedBy(by) ==
  IF mediaRecorderRef # 0 /\ phase[mediaRecorderRef] = "recording"
  THEN [stoppedBy EXCEPT ![mediaRecorderRef] = by]
  ELSE stoppedBy

\* startRecording or handleEndCall ran: the runs that stand at an await.
Invalidate ==
  [i \in Sessions |-> IF phase[i] \in Running THEN phase[i] ELSE invalidatedAt[i]]

\* startRecording without line 269: the element it drops goes on playing.
PlayingAfterNoPause(playing) == playing

\* Whether an element that was playing or not still plays after pause() (line 269).
PlayingAfterPause(playing) == FALSE

\* The status the outer catch sets for an error that is no AbortError (line 428);
\* transcriptionText is the value of the render the call's closure was made in.
CatchStatus(i) ==
  IF capTranscript[i] # 0 THEN YouSaid(capTranscript[i]) ELSE ErrorQuery

\* The call of session i has returned in this step: what only its frames and
\* closures held (f[i]) is gone.
Released(f, i, init) ==
  IF phase'[i] \in Terminal THEN [f EXCEPT ![i] = init] ELSE f

\* The test of line 402 off by one: a 429 at retryCount = maxRetries is retried too.
RetryAllowedOffByOne(n) == n <= maxRetries

\* retryCount < maxRetries (line 402)
RetryAllowed(n) == n < maxRetries

\* ------------------------------------------------------------- startRecording
\* Lines 266-285: the toggle button while isRecording is false (line 437-441),
\* up to the await of getUserMedia.
StartRecording ==
  /\ NoMicrotask
  /\ ~isRecording
  /\ Unused # {}
  /\ NextSession <= env.sessions
  /\ LET n == NextSession IN
       /\ audioPlaying' = FALSE
       /\ audioSrc' = 0
       /\ aborted' = AbortScope(aborted)
       /\ ctrl' = 0
       /\ linked' = Unlinked
       /\ phase' = [StopIfRecording(phase) EXCEPT ![n] = "awaitMic"]
       /\ isPaused' = FALSE
       /\ isProcessing' = FALSE
       /\ transcriptionText' = 0
       /\ status' = Starting
       /\ capHistory' = [capHistory EXCEPT ![n] = chatHistory]
       /\ capTranscript' = [capTranscript EXCEPT ![n] = transcriptionText]
       /\ superseded' = [i \in Sessions |-> superseded[i] \/ phase[i] \in Running]
  /\ afterEnd' = FALSE
  /\ invalidatedAt' = Invalidate
  /\ stoppedBy' = StoppedBy("start")
  /\ playingDetached' = IF PlayingAfterPause(audioPlaying) THEN playingDetached + 1
                        ELSE playingDetached
  /\ UNCHANGED <<isRecording, chatHistory, mediaRecorderRef, audioChunksRef,
                 retryCount, clip, appended, synthIssued, rateLimits, envVars>>

\* Lines 285-320: getUserMedia resolved.
MicGranted(i) ==
  /\ NoMicrotask
  /\ phase[i] = "awaitMic"
  /\ mediaRecorderRef' = i
  /\ audioChunksRef' = <<>>
  /\ phase' = [phase EXCEPT ![i] = "recording"]
  /\ isRecording' = TRUE
  /\ status' = RecordingNow
  /\ UNCHANGED <<invalidatedAt, stoppedBy, playingDetached>>
  /\ UNCHANGED <<isPaused, isProcessing, transcriptionText, chatHistory, audioSrc,
                 audioPlaying, ctrl, retryCount, linked, aborted, clip, capHistory, capTranscript, appended, synthIssued, superseded,
                 afterEnd, rateLimits, envVars>>

\* Lines 321-326: getUserMedia rejected.
MicDenied(i) ==
  /\ NoMicrotask
  /\ env.errors
  /\ phase[i] = "awaitMic"
  /\ phase' = [phase EXCEPT ![i] = "micFailed"]
  /\ status' = MicError
  /\ isRecording' = FALSE
  /\ isProcessing' = FALSE
  /\ retryCount' = Released(retryCount, i, 0)
  /\ clip' = Released(clip, i, <<>>)
  /\ capHistory' = Released(capHistory, i, <<>>)
  /\ capTranscript' = Released(capTranscript, i, 0)
  /\ superseded' = Released(superseded, i, FALSE)
  /\ UNCHANGED <<invalidatedAt, stoppedBy, playingDetached>>
  /\ UNCHANGED <<isPaused, transcriptionText, chatHistory, mediaRecorderRef,
                 audioChunksRef, audioSrc, audioPlaying, ctrl, linked,
                 aborted, appended,
                 synthIssued, afterEnd, rateLimits, envVars>>

\* ------------------------------------------------------------- stopRecording
\* Lines 329-336: the toggle button while isRecording is true.
StopRecording ==
  /\ NoMicrotask
  /\ isRecording
  /\ mediaRecorderRef # 0
  /\ phase[mediaRecorderRef] = "recording"
  /\ phase' = StopIfRecording(phase)
  /\ isRecording' = FALSE
  /\ isProcessing' = TRUE
  /\ status' = ProcessingQuery
  /\ stoppedBy' = StoppedBy("stop")
  /\ UNCHANGED <<invalidatedAt, playingDetached>>
  /\ UNCHANGED <<isPaused, transcriptionText, chatHistory, mediaRecorderRef,
                 audioChunksRef, audioSrc, audioPlaying, ctrl, retryCount, linked,
                 aborted, clip, capHistory, capTranscript, appended,
                 synthIssued, superseded, afterEnd, rateLimits, envVars>>

\* ------------------------------------------------------ the recorder's stop task
\* The task stop() queued: dataavailable (lines 289-293) with the data the recorder
\* gathered, of size sz, then onstop (lines 295-309) up to the first await of
\* processAudio (lines 348-358).
RecorderStopTask(i, sz) ==
  /\ NoMicrotask
  /\ phase[i] = "stopping"
  /\ sz = 0 => env.errors
  /\ LET chunks == IF sz > 0 THEN Append(audioChunksRef, i) ELSE audioChunksRef IN
       /\ audioChunksRef' = chunks
       /\ IF Len(chunks) = 0
          THEN \* line 299 throws; lines 302-308
               /\ status' = ErrorAudio
               /\ isProcessing' = FALSE
               /\ phase' = [phase EXCEPT ![i] = "doneEmpty"]
               /\ UNCHANGED <<ctrl, linked, clip>>
          ELSE \* line 301: processAudio(audioBlob), lines 349-358
               /\ ctrl' = i
               /\ linked' = [Unlinked EXCEPT ![i] = TRUE]
               /\ clip' = [clip EXCEPT ![i] = chunks]
               /\ phase' = [phase EXCEPT ![i] = "transcribe"]
               /\ UNCHANGED <<status, isProcessing>>
  /\ retryCount' = Released(retryCount, i, 0)
  /\ capHistory' = Released(capHistory, i, <<>>)
  /\ capTranscript' = Released(capTranscript, i, 0)
  /\ superseded' = Released(superseded, i, FALSE)
  /\ stoppedBy' = [stoppedBy EXCEPT ![i] = "none"]
  /\ UNCHANGED <<invalidatedAt, playingDetached>>
  /\ UNCHANGED <<isRecording, isPaused, transcriptionText, chatHistory,
                 mediaRecorderRef, audioSrc, audioPlaying, aborted,
                 appended, synthIssued, afterEnd, rateLimits, envVars>>

\* ------------------------------------------------------------- processAudio
\* The finally without line 431: isProcessing stays as it is.
FinallyProcessingKept == isProcessing

\* isProcessing after the finally of processAudio: setIsProcessing(false), line 431.
FinallyProcessing == FALSE

\* An error that is no AbortError reaches the outer catch (lines 426-428), then
\* the finally (lines 430-433).
OuterCatch(i) ==
  /\ status' = CatchStatus(i)
  /\ isProcessing' = FinallyProcessing
  /\ ctrl' = 0
  /\ linked' = Unlinked
  /\ phase' = [phase EXCEPT ![i] = "doneError"]

\* An error thrown in the inner try reaches the inner catch (lines 418-421), then
\* the finally (lines 430-433).
InnerCatch(i, end) ==
  /\ status' = AIReceived
  /\ isProcessing' = FinallyProcessing
  /\ ctrl' = 0
  /\ linked' = Unlinked
  /\ phase' = [phase EXCEPT ![i] = end]

\* The chat_history of the /generate_response request of run i (line 375):
\* chatHistory as the closure of its processAudio holds it.
RequestHistory(i) == capHistory[i]

\* The transcription field of the /transcribe response r for the clip of run i
\* (line 363); 0 is the empty or blank string.
Transcription(i, r) == IF r = "ok" THEN Transcript(i) ELSE 0

\* The tests of lines 359 and 365 without line 365: a blank transcript passes.
TranscriptionValidNoBlankTest(i, r) == r # "fail"

\* The response passes the tests of lines 359 and 365.
TranscriptionValid(i, r) == r # "fail" /\ Transcription(i, r) # 0

\* Lines 359-377: the /transcribe response r arrived.
TranscribeResp(i, r) ==
  /\ NoMicrotask
  /\ phase[i] = "transcribe"
  /\ i \in env.answered
  /\ r # "ok" => env.errors
  /\ IF ~TranscriptionValid(i, r)
     THEN \* lines 359-367: not ok, or an empty or blank transcription
          /\ OuterCatch(i)
          /\ UNCHANGED transcriptionText
     ELSE /\ transcriptionText' = Transcription(i, r)
          /\ IF ctrl = 0
             THEN \* line 376 reads .signal of null: a TypeError
                  OuterCatch(i)
             ELSE /\ status' = YouSaid(Transcription(i, r))
                  /\ phase' = [phase EXCEPT ![i] = "generate"]
                  /\ linked' = [linked EXCEPT ![i] = TRUE]
                  /\ UNCHANGED <<isProcessing, ctrl>>
  /\ retryCount' = Released(retryCount, i, 0)
  /\ clip' = Released(clip, i, <<>>)
  /\ capHistory' = Released(capHistory, i, <<>>)
  /\ capTranscript' = Released(capTranscript, i, 0)
  /\ superseded' = Released(superseded, i, FALSE)
  /\ invalidatedAt' = Released(invalidatedAt, i, "none")
  /\ UNCHANGED <<stoppedBy, playingDetached>>
  /\ UNCHANGED <<isRecording, isPaused, chatHistory, mediaRecorderRef,
                 audioChunksRef, audioSrc, audioPlaying, aborted, appended, synthIssued,
                 afterEnd, rateLimits, envVars>>

\* Lines 378-399: the /generate_response response arrived.
GenerateResp(i, ok) ==
  /\ NoMicrotask
  /\ phase[i] = "generate"
  /\ i \in env.answered
  /\ ~ok => env.errors
  /\ IF ~ok
     THEN /\ OuterCatch(i)
          /\ UNCHANGED <<chatHistory, transcriptionText, appended, synthIssued>>
     ELSE /\ chatHistory' = Append(chatHistory, Entry(i))
          /\ appended' = [appended EXCEPT ![i] = @ + 1]
          /\ transcriptionText' = 0
          /\ IF ctrl = 0
             THEN \* line 398 reads .signal of null inside the inner try
                  /\ InnerCatch(i, "doneText")
                  /\ UNCHANGED synthIssued
             ELSE /\ phase' = [phase EXCEPT ![i] = "tts"]
                  /\ linked' = [linked EXCEPT ![i] = TRUE]
                  /\ synthIssued' = [synthIssued EXCEPT ![i] = @ + 1]
                  /\ UNCHANGED <<status, isProcessing, ctrl>>
  /\ retryCount' = Released(retryCount, i, 0)
  /\ clip' = Released(clip, i, <<>>)
  /\ capHistory' = Released(capHistory, i, <<>>)
  /\ capTranscript' = Released(capTranscript, i, 0)
  /\ superseded' = Released(superseded, i, FALSE)
  /\ invalidatedAt' = Released(invalidatedAt, i, "none")
  /\ UNCHANGED <<stoppedBy, playingDetached>>
  /\ UNCHANGED <<isRecording, isPaused, mediaRecorderRef, audioChunksRef, audioSrc,
                 audioPlaying, aborted, afterEnd, rateLimits, envVars>>

\* Lines 400-421 and 430-433: the /tts response r arrived; playOk tells whether
\* audioRef.current.play() resolves (its catch, lines 413-416, runs after line 417).
TtsResp(i, r, playOk) ==
  /\ NoMicrotask
  /\ phase[i] = "tts"
  /\ i \in env.answered
  /\ r = "rateLimited" => rateLimits < env.rateLimits
  /\ (r = "fail" \/ ~playOk) => env.errors
  /\ rateLimits' = IF r = "rateLimited" THEN rateLimits + 1 ELSE rateLimits
  /\ CASE r = "ok" ->
            /\ audioSrc' = i
            /\ audioPlaying' = playOk
            /\ status' = IF playOk THEN AIResponding ELSE AIReceived
            /\ isProcessing' = FinallyProcessing
            /\ ctrl' = 0
            /\ linked' = Unlinked
            /\ phase' = [phase EXCEPT ![i] = "doneAudio"]
       [] r = "rateLimited" /\ RetryAllowed(retryCount[i]) ->
            \* lines 402-405: the await of the timer
            /\ phase' = [phase EXCEPT ![i] = "delay"]
            /\ linked' = [linked EXCEPT ![i] = FALSE]
            /\ UNCHANGED <<audioSrc, audioPlaying, status, isProcessing, ctrl>>
       [] OTHER ->
            \* line 408 throws
            /\ InnerCatch(i, "doneText")
            /\ UNCHANGED <<audioSrc, audioPlaying>>
  /\ retryCount' = Released(retryCount, i, 0)
  /\ clip' = Released(clip, i, <<>>)
  /\ capHistory' = Released(capHistory, i, <<>>)
  /\ capTranscript' = Released(capTranscript, i, 0)
  /\ superseded' = Released(superseded, i, FALSE)
  /\ invalidatedAt' = Released(invalidatedAt, i, "none")
  /\ UNCHANGED <<stoppedBy, playingDetached>>
  /\ UNCHANGED <<isRecording, isPaused, transcriptionText, chatHistory,
                 mediaRecorderRef, audioChunksRef, aborted, appended, synthIssued,
                 afterEnd, envVars>>

\* Lines 405-406: the timer fired. processAudio(audioBlob, retryCount + 1) runs to
\* its first await (lines 349-358); the caller returns that promise without
\* awaiting it, so its finally (lines 430-433) runs at once.
TimerFires(i) ==
  /\ NoMicrotask
  /\ phase[i] = "delay"
  /\ retryCount' = [retryCount EXCEPT ![i] = @ + 1]
  /\ phase' = [phase EXCEPT ![i] = "transcribe"]
  /\ isProcessing' = FinallyProcessing
  /\ ctrl' = 0
  /\ linked' = Unlinked
  /\ UNCHANGED <<invalidatedAt, stoppedBy, playingDetached>>
  /\ UNCHANGED <<isRecording, isPaused, status, transcriptionText, chatHistory,
                 mediaRecorderRef, audioChunksRef, audioSrc, audioPlaying, aborted,
                 clip, capHistory, capTranscript, appended, synthIssued,
                 superseded, afterEnd, rateLimits, envVars>>

\* The continuation of a fetch rejected with AbortError: the outer catch (lines
\* 423-425) for /transcribe and /generate_response, the inner catch (lines 418-421)
\* for /tts; then the finally (lines 430-433).
AbortCont(i) ==
  /\ aborted[i]
  /\ aborted' = [aborted EXCEPT ![i] = FALSE]
  /\ IF phase[i] = "tts"
     THEN InnerCatch(i, "doneAbortedTts")
     ELSE /\ status' = Prompt
          /\ isProcessing' = FinallyProcessing
          /\ ctrl' = 0
          /\ linked' = Unlinked
          /\ phase' = [phase EXCEPT ![i] = "doneAborted"]
  /\ retryCount' = Released(retryCount, i, 0)
  /\ clip' = Released(clip, i, <<>>)
  /\ capHistory' = Released(capHistory, i, <<>>)
  /\ capTranscript' = Released(capTranscript, i, 0)
  /\ superseded' = Released(superseded, i, FALSE)
  /\ invalidatedAt' = Released(invalidatedAt, i, "none")
  /\ UNCHANGED <<stoppedBy, playingDetached>>
  /\ UNCHANGED <<isRecording, isPaused, transcriptionText, chatHistory,
                 mediaRecorderRef, audioChunksRef, audioSrc, audioPlaying,
                 appended,
                 synthIssued, afterEnd, rateLimits, envVars>>

\* ------------------------------------------------------------- togglePause
\* The test of line 445 without isProcessing.
PauseDisabledNoSourceOnly == audioSrc = 0

\* !audioRef.current.src || isProcessing (line 445)
PauseDisabled == audioSrc = 0 \/ isProcessing

\* Lines 444-458; the guard of line 445 returns without a change. playOk tells
\* whether play() resolves; its catch (lines 448-449) runs after line 452.
TogglePause(playOk) ==
  /\ NoMicrotask
  /\ env.controls
  /\ ~PauseDisabled
  /\ ~playOk => (env.errors /\ isPaused)
  /\ IF isPaused
     THEN /\ audioPlaying' = playOk
          /\ isPaused' = FALSE
          /\ status' = IF playOk THEN AIResponding ELSE ErrorResuming
     ELSE /\ audioPlaying' = FALSE
          /\ isPaused' = TRUE
          /\ status' = ResponsePaused
  /\ UNCHANGED <<invalidatedAt, stoppedBy, playingDetached>>
  /\ UNCHANGED <<isRecording, isProcessing, transcriptionText, chatHistory,
                 mediaRecorderRef, audioChunksRef, audioSrc, ctrl, phase,
                 retryCount, linked, aborted, clip, capHistory,
                 capTranscript, appended, synthIssued, superseded, afterEnd,
                 rateLimits, envVars>>

\* ------------------------------------------------------------- handleEndCall
\* handleEndCall without line 477: the log survives the end of the interaction.
EndCallHistoryKept == chatHistory

\* chatHistory after setChatHistory([]) (line 477)
EndCallHistory == <<>>

\* Lines 460-478.
HandleEndCall ==
  /\ NoMicrotask
  /\ env.controls
  /\ phase' = StopIfRecording(phase)
  /\ audioPlaying' = FALSE
  /\ audioSrc' = 0
  /\ aborted' = AbortScope(aborted)
  /\ ctrl' = 0
  /\ linked' = Unlinked
  /\ isPaused' = FALSE
  /\ isProcessing' = FALSE
  /\ isRecording' = FALSE
  /\ status' = Prompt
  /\ transcriptionText' = 0
  /\ chatHistory' = EndCallHistory
  /\ afterEnd' = TRUE
  /\ invalidatedAt' = Invalidate
  /\ stoppedBy' = StoppedBy("end")
  /\ UNCHANGED playingDetached
  /\ UNCHANGED <<mediaRecorderRef, audioChunksRef, retryCount, clip, capHistory, capTranscript, appended, synthIssued, superseded,
                 rateLimits, envVars>>

\* ------------------------------------------------------------- specification
Next ==
  \/ StartRecording
  \/ \E i \in Sessions : MicGranted(i)
  \/ \E i \in Sessions : MicDenied(i)
  \/ StopRecording
  \/ \E i \in Sessions, sz \in 0..1 : RecorderStopTask(i, sz)
  \/ \E i \in Sessions, r \in {"ok", "empty", "fail"} : TranscribeResp(i, r)
  \/ \E i \in Sessions, ok \in BOOLEAN : GenerateResp(i, ok)
  \/ \E i \in Sessions, r \in {"ok", "rateLimited", "fail"}, playOk \in BOOLEAN :
       TtsResp(i, r, playOk)
  \/ \E i \in Sessions : TimerFires(i)
  \/ \E i \in Sessions : AbortCont(i)
  \/ \E playOk \in BOOLEAN : TogglePause(playOk)
  \/ HandleEndCall

Spec == Init /\ [][Next]_vars

\* ------------------------------------------------- callbacks scheduled fairly
\* The callbacks and continuations of session i: the answer of getUserMedia, the
\* recorder's stop task, the responses of the three services, the retry timer and
\* the continuation of an aborted fetch.
Callback(i) ==
  \/ MicGranted(i)
  \/ MicDenied(i)
  \/ \E sz \in 0..1 : RecorderStopTask(i, sz)
  \/ \E r \in {"ok", "empty", "fail"} : TranscribeResp(i, r)
  \/ \E ok \in BOOLEAN : GenerateResp(i, ok)
  \/ \E r \in {"ok", "rateLimited", "fail"}, playOk \in BOOLEAN : TtsResp(i, r, playOk)
  \/ TimerFires(i)
  \/ AbortCont(i)

\* The environments in which every request is answered.
InitLive ==
  /\ Init
  /\ env.controls
  /\ env.answered = Sessions

\* The event loop runs every queued callback, and every request is answered.
SpecLive ==
  InitLive /\ [][Next]_vars /\ \A i \in Sessions : WF_vars(Callback(i))

\* ------------------------------------------------- the retry policy on its own
\* Line 403 applied to every detail of Details.
InitPolicy ==
  /\ InitComponent
  /\ env \in {e \in Profiles : e.controls}
  /\ errorDetail \in Details
  /\ retryAfter = NotComputed

ComputeDelay ==
  /\ retryAfter = NotComputed
  /\ retryAfter' = RetryDelay(errorDetail)
  /\ UNCHANGED <<invalidatedAt, stoppedBy, playingDetached>>
  /\ UNCHANGED <<isRecording, isPaused, isProcessing, status, transcriptionText,
                 chatHistory, mediaRecorderRef, audioChunksRef, audioSrc,
                 audioPlaying, ctrl, phase, retryCount, linked, aborted, clip,
                 capHistory, capTranscript, appended, synthIssued, superseded,
                 afterEnd, rateLimits, env, errorDetail>>

SpecPolicy == InitPolicy /\ [][ComputeDelay]_vars

\* ============================================================== properties
Range(s) == {s[k] : k \in DOMAIN s}

\* A step of run i: a response, the timer or an abort continuation moved it on.
RunStep(i) == phase[i] \in Running /\ phase'[i] # phase[i]

\* The stop task of recorder i ran and its dataavailable carried no data.
ZeroStopTask(i) ==
  /\ phase[i] = "stopping"
  /\ phase'[i] # "stopping"
  /\ audioChunksRef' = audioChunksRef

\* A request went out in this step for run i.
RequestIssued(i) ==
  \/ phase'[i] \in InFlight /\ phase'[i] # phase[i]
  \/ synthIssued'[i] # synthIssued[i]

\* C1: every run whose response generation succeeded has appended exactly one
\* entry to the Conversation Log for its clip, whatever became of the synthesis
\* (success, failure, rate-limit retries): never more than one, and one as soon as
\* the run is past the response step.
C1_ExactlyOneEntry ==
  \A i \in Sessions :
    /\ appended[i] <= 1
    /\ phase[i] \in {"tts", "delay", "doneAudio", "doneText", "doneAbortedTts"}
         => appended[i] = 1

\* C2: once startRecording has run while run i was in flight, run i ends as
\* cancelled and no step of run i writes the status message or appends to the
\* Conversation Log.
C2_SupersededRunSilent ==
  [][\A i \in Sessions :
       (superseded[i] /\ RunStep(i)) =>
         /\ status' = status
         /\ chatHistory' = chatHistory
         /\ phase'[i] = "doneAborted"]_vars

\* C3: the state right after handleEndCall, from any state: isRecording,
\* isProcessing and isPaused are false, the referenced recorder is not recording,
\* playback is stopped and its source cleared, the pending transcript and the
\* Conversation Log are empty, the controller ref is null and every fetch that
\* carried its signal is aborted.
EndCallPost ==
  /\ ~isRecording /\ ~isProcessing /\ ~isPaused
  /\ mediaRecorderRef # 0 => phase[mediaRecorderRef] # "recording"
  /\ ~audioPlaying /\ audioSrc = 0
  /\ transcriptionText = 0
  /\ chatHistory = <<>>
  /\ ctrl = 0
  /\ \A i \in Sessions : ~linked[i]
C3_EndCallResets ==
  [][HandleEndCall =>
       /\ EndCallPost'
       /\ \A i \in Sessions :
            (ctrl # 0 /\ linked[i] /\ phase[i] \in InFlight) => aborted'[i]]_vars

\* C3 witness: handleEndCall has just run while a run was processing (its fetch is
\* aborted, the continuation still pending) with an entry in the log before.
C3_Witness ==
  /\ afterEnd
  /\ \E i \in Sessions : aborted[i] /\ phase[i] = "tts" /\ appended[i] = 1
  /\ EndCallPost

\* C4: after handleEndCall and until the next startRecording, no step of a
\* recording or run that existed before issues a request or changes the status
\* message, the pending transcript, the Conversation Log or the playback handle.
C4_QuietAfterEndCall ==
  [][\A i \in Sessions :
       (afterEnd /\ afterEnd' /\ phase[i] \in Running \cup {"stopping"}
          /\ phase'[i] # phase[i]) =>
         /\ ~RequestIssued(i)
         /\ status' = status
         /\ transcriptionText' = transcriptionText
         /\ chatHistory' = chatHistory
         /\ audioSrc' = audioSrc
         /\ audioPlaying' = audioPlaying]_vars

\* C5: when the stop task of a recording that captured no data runs, the pipeline
\* is not invoked for it (no /transcribe request), isProcessing is false and the
\* status is the error message.
C5_EmptyCaptureNoPipeline ==
  [][\A i \in Sessions :
       ZeroStopTask(i) =>
         /\ phase'[i] = "doneEmpty"
         /\ ~RequestIssued(i)
         /\ ~isProcessing'
         /\ status' = ErrorAudio]_vars

\* C6: a recording that captured no data never has the session in Processing:
\* isProcessing is false when its stop task comes to report the empty capture.
C6_EmptyCaptureNeverProcessing ==
  [][\A i \in Sessions : ZeroStopTask(i) => ~isProcessing]_vars

\* C7: per clip at most maxRetries retries follow a 429 of /tts, so at most
\* maxRetries + 1 /tts requests are issued; a run waits out a retry delay only with
\* retryCount below maxRetries, so the 429 that answers the request of retryCount
\* maxRetries ends the run.
C7_RetryBounded ==
  \A i \in Sessions :
    /\ retryCount[i] <= maxRetries
    /\ synthIssued[i] <= maxRetries + 1
    /\ phase[i] = "delay" => retryCount[i] < maxRetries

\* C7 witness: a clip whose fourth /tts request was answered 429 and ended the run
\* text-only, without audio.
C7_Witness ==
  /\ rateLimits = maxRetries + 1
  /\ \E i \in Sessions :
       synthIssued[i] = maxRetries + 1 /\ phase[i] = "doneText" /\ audioSrc # i

\* C8: when /tts fails for good (an error other than 429, or a 429 with the retries
\* used up) after the response step succeeded, the Conversation Log holds the entry
\* of the exchange, no audio is played, and the session is Idle with the text-only
\* status.
C8_SynthesisFailureKeepsText ==
  [][\A i \in Sessions :
       (phase[i] = "tts" /\ ~aborted[i] /\ phase'[i] = "doneText") =>
         /\ Entry(i) \in Range(chatHistory')
         /\ audioSrc' = audioSrc /\ audioPlaying' = audioPlaying
         /\ ~isProcessing' /\ ~isRecording'
         /\ status' = AIReceived]_vars

\* The reference delay of the specification: after "Please try again in ", hours, minutes and
\* seconds, each optional, the seconds an integer or a decimal; any component
\* present gives (3600*H + 60*M + S) * 1000, zero included; none gives the default.
RefSecondsGroup(s, p) ==
  LET n == DigitRun(s, p)
      k == IF n > 0 /\ p + n <= Len(s) /\ s[p + n] = "." THEN DigitRun(s, p + n + 1)
           ELSE 0
  IN IF k > 0 /\ p + n + 1 + k <= Len(s) /\ s[p + n + 1 + k] = "s" THEN <<n, k>>
     ELSE IF n > 0 /\ p + n <= Len(s) /\ s[p + n] = "s" THEN <<n, 0>>
     ELSE <<0, 0>>
ReferenceDelay(detail) ==
  LET at == FindPrefix(detail, 1)
      p1 == at + 1
      g1 == UnitGroup(detail, p1, "h")
      p2 == p1 + g1
      g2 == UnitGroup(detail, p2, "m")
      p3 == p2 + g2
      g3 == RefSecondsGroup(detail, p3)
      hours == IF g1 > 0 THEN DecVal(detail, p1, g1 - 1) * 3600 ELSE 0
      minutes == IF g2 > 0 THEN DecVal(detail, p2, g2 - 1) * 60 ELSE 0
      millis == IF g3[1] = 0 THEN 0
                ELSE IF g3[2] = 0 THEN DecVal(detail, p3, g3[1]) * 1000
                ELSE SecondsMs(detail, p3, g3)
  IN IF at = 0 \/ (g1 = 0 /\ g2 = 0 /\ g3[1] = 0) THEN DefaultRetryDelay
     ELSE (hours + minutes) * 1000 + millis

\* C9: for every error detail the delay used before the retry is the reference
\* value: the duration the detail embeds, in milliseconds, as it stands even when
\* it is zero, and 10000 when it embeds none.
C9_DelayIsReference ==
  retryAfter # NotComputed => retryAfter = ReferenceDelay(errorDetail)

\* C10: at most one recorder is recording, and it is the one the session
\* references.
C10_OneRecorder ==
  \A i \in Sessions : phase[i] = "recording" => mediaRecorderRef = i

\* startRecording or handleEndCall has run over run i since it began.
Invalidated(i) == invalidatedAt[i] # "none"

\* The live runs: not terminated, and no startRecording or handleEndCall has run
\* over them.
LiveRuns == {i \in Sessions : phase[i] \in Running /\ ~Invalidated(i)}

\* C11: at most one pipeline run is live at any time, and a run that a new
\* recording or the end of the interaction has superseded never becomes live
\* again: it opens no fresh scope and issues no request (as it would by resuming
\* after a retry delay).
C11_OneLiveRun ==
  [][/\ Cardinality(LiveRuns') <= 1
     /\ \A i \in Sessions :
          (Invalidated(i) /\ phase[i] \in Running) => ~RequestIssued(i)]_vars

\* C12: a recording that startRecording stopped while it was recording is
\* discarded: its stop task hands no clip to processAudio, so no /transcribe
\* request is issued for it.
C12_InterruptedRecordingDiscarded ==
  [][\A i \in Sessions :
       (phase[i] = "stopping" /\ stoppedBy[i] = "start") =>
         phase'[i] \notin Running]_vars

\* C13: a run over which startRecording or handleEndCall ran while it was waiting
\* out the retry delay leaves the wait as cancelled and issues no further request.
C13_DelayHonorsCancellation ==
  [][\A i \in Sessions :
       (phase[i] = "delay" /\ invalidatedAt[i] = "delay" /\ phase'[i] # "delay") =>
         /\ phase'[i] = "doneAborted"
         /\ ~RequestIssued(i)]_vars

\* C14: a run over which startRecording or handleEndCall ran while one of its
\* three requests was in flight, /tts included, ends as cancelled: its next step
\* sets no error status and no 'AI response received', and leaves the status as
\* the superseding handler set it.
C14_InFlightCancelSilent ==
  [][\A i \in Sessions :
       (phase[i] \in InFlight /\ invalidatedAt[i] = phase[i] /\ phase'[i] # phase[i]) =>
         /\ phase'[i] = "doneAborted"
         /\ status' = status]_vars

\* C15: within one run the requests go out in the order /transcribe,
\* /generate_response, /tts, each after the one before it succeeded: a
\* /generate_response request is issued only by the step that received a
\* non-blank transcript from /transcribe, a /tts request only by the step that
\* received the reply from /generate_response and appended it, and a failed or
\* blank transcription or a failed generation ends the run with no request.
C15_StepsInOrder ==
  [][\A i \in Sessions :
       /\ (phase'[i] = "transcribe" /\ phase[i] # "transcribe") =>
             phase[i] \in {"stopping", "delay"}
       /\ (phase'[i] = "generate" /\ phase[i] # "generate") =>
             /\ phase[i] = "transcribe"
             /\ transcriptionText' # 0
             /\ transcriptionText' = Transcript(i)
       /\ synthIssued'[i] # synthIssued[i] =>
             /\ phase[i] = "generate" /\ phase'[i] = "tts"
             /\ synthIssued'[i] = synthIssued[i] + 1
             /\ chatHistory' = Append(chatHistory, Entry(i))
       /\ (phase'[i] = "tts" /\ phase[i] # "tts") => synthIssued'[i] # synthIssued[i]
       /\ (phase[i] \in {"transcribe", "generate"} /\ phase'[i] = "doneError") =>
             ~RequestIssued(i)]_vars

\* C15 witness: a run whose transcription failed has ended with no entry and no
\* /tts request, after an earlier run went through all three steps.
C15_Witness ==
  \E i, j \in Sessions :
    /\ phase[j] = "doneAudio" /\ synthIssued[j] = 1 /\ appended[j] = 1
    /\ phase[i] = "doneError" /\ synthIssued[i] = 0 /\ appended[i] = 0
    /\ transcriptionText = 0
    /\ status = ErrorQuery

\* C16: every /generate_response request carries as chat_history the
\* Conversation Log as it stands when the request is issued: the entries appended
\* so far and not cleared, in order.
C16_RequestCarriesLog ==
  [][\A i \in Sessions :
       (phase[i] = "transcribe" /\ phase'[i] = "generate") =>
         RequestHistory(i) = chatHistory]_vars

\* The transcript of run i is on display when its transcription had succeeded.
OwnTranscriptKept(i) ==
  phase[i] = "generate" => transcriptionText' = Transcript(i)

\* C17: when /transcribe or /generate_response fails in a run that was not
\* cancelled, the component is Idle afterwards, the log and the audio are as they
\* were, the status shows the error or, when the transcription of this run had
\* succeeded, the transcript of this run, and the transcript on display is not
\* replaced: never is the transcript of another run shown.
C17_PipelineErrorKeepsTranscript ==
  [][\A i \in Sessions :
       (/\ phase[i] \in {"transcribe", "generate"}
        /\ ctrl # 0 /\ ~aborted[i] /\ ~Invalidated(i)
        /\ phase'[i] = "doneError") =>
         /\ ~isProcessing' /\ ~isRecording'
         /\ chatHistory' = chatHistory
         /\ audioSrc' = audioSrc /\ audioPlaying' = audioPlaying
         /\ \/ status' = ErrorQuery
            \/ phase[i] = "generate" /\ status' = YouSaid(Transcript(i))
         /\ transcriptionText' = transcriptionText
         /\ OwnTranscriptKept(i)]_vars

\* The Audio elements that are playing: those audioRef has dropped, and its own.
PlayingCount == playingDetached + (IF audioPlaying THEN 1 ELSE 0)

\* C18: at most one Audio element is playing at any time; after startRecording and
\* after handleEndCall none is playing and the source is released, and when a new
\* synthesis result takes over no element but the one it plays on is playing.
C18_OnePlayback ==
  [][/\ PlayingCount' <= 1
     /\ (StartRecording \/ HandleEndCall) => (PlayingCount' = 0 /\ audioSrc' = 0)
     /\ (audioSrc' # audioSrc /\ audioSrc' # 0) => playingDetached' = 0]_vars

\* C18 witness: the reply of a later run is playing after the reply of an earlier
\* run was played.
C18_Witness ==
  /\ audioPlaying /\ audioSrc # 0 /\ phase[audioSrc] = "doneAudio"
  /\ \E j \in Sessions : j < audioSrc /\ phase[j] = "doneAudio"
  /\ PlayingCount = 1

\* A step of togglePause that got past line 445: isPaused flips and the status is
\* one of the three togglePause sets.
PauseToggled ==
  /\ isPaused' # isPaused
  /\ status' \in {ResponsePaused, AIResponding, ErrorResuming}

\* C19: togglePause changes nothing while the session is Processing or there is
\* no playback source; otherwise it flips between Speaking and Paused on the same
\* source: from not paused it pauses the audio, from paused it resumes it, so a
\* pause followed by a resume has the audio playing again (when the browser lets
\* play() resolve).
C19_TogglePause ==
  [][/\ PauseToggled =>
          /\ ~isProcessing /\ audioSrc # 0
          /\ audioSrc' = audioSrc
          /\ IF isPaused
             THEN ~isPaused' /\ (audioPlaying' \/ status' = ErrorResuming)
             ELSE isPaused' /\ ~audioPlaying' /\ status' = ResponsePaused
     /\ (isPaused' /\ ~isPaused) => PauseToggled
     /\ (status' = ResponsePaused /\ status # ResponsePaused) => PauseToggled
  ]_vars

\* C19 witness: togglePause has paused the audio of a reply that was playing.
C19_Witness ==
  /\ isPaused /\ ~audioPlaying /\ audioSrc # 0
  /\ status = ResponsePaused
  /\ phase[audioSrc] = "doneAudio"
  /\ ~isProcessing

\* The stream that getUserMedia gave session i (line 285) has tracks not yet
\* stopped: line 307 stops them when onstop ends, after the await of processAudio.
StreamOpen(i) == phase[i] \in {"recording", "stopping"} \cup Running

\* C20: every microphone stream is released in the end once stop() was called on
\* its recorder, or once another startRecording call has taken its place in
\* mediaRecorderRef, given that callbacks are run and requests answered.
C20_StreamReleased ==
  \A i \in Sessions :
    (StreamOpen(i) /\ (phase[i] # "recording" \/ mediaRecorderRef # i))
      ~> ~StreamOpen(i)

\* C21: isRecording and isProcessing are never both true, whatever the
\* interleaving of startRecording calls awaiting the microphone, stopRecording,
\* handleEndCall and the callbacks of the pipeline.
C21_RecordingXorProcessing == ~(isRecording /\ isProcessing)

\* Run i reads processingControllerRef.current.signal in this step: line 376 once
\* the transcription passed its tests, line 398 once the reply was received.
ReadsScope(i) ==
  \/ \E r \in {"ok", "empty", "fail"} : TranscriptionValid(i, r) /\ TranscribeResp(i, r)
  \/ GenerateResp(i, TRUE)

\* C22: whenever a run reads the controller reference to attach its signal to a
\* request, the reference is not null and holds the controller created for that
\* same run: no start, retry or completion of a run replaced or cleared it.
C22_ScopeIsOwn ==
  [][\A i \in Sessions : ReadsScope(i) => (ctrl # 0 /\ ctrl = i)]_vars

\* C23: every run ends and the session leaves Processing: a run that stands at a
\* request or at the retry delay reaches an end, and isProcessing, once true,
\* becomes false, given that callbacks are run, requests answered and timers fire.
C23_RunsTerminate ==
  /\ \A i \in Sessions : (phase[i] \in Running) ~> (phase[i] \in Terminal)
  /\ isProcessing ~> ~isProcessing

\* C23 witness: a run that /tts answered with 429 has ended after its retry, and
\* the session is no longer Processing.
C23_Witness ==
  /\ rateLimits > 0
  /\ ~isProcessing
  /\ \E i \in Sessions : phase[i] \in Terminal /\ (appended[i] > 0 \/ synthIssued[i] > 0)
  /\ \A i \in Sessions : phase[i] \notin Running \cup {"stopping"}

====
